---- MODULE Spec2Model ----
(***************************************************************************)
(* Model of the orbital calculations of kepler.py and of the solar         *)
(* irradiation model of solar.py.                                          *)
(*                                                                         *)
(* Numbers.  Python floats are modelled as fixed-point integers: the       *)
(* integer n stands for the real n / Scale (radians for angles).  The      *)
(* library functions math.sin, math.cos, math.tan, math.sqrt, math.acos,   *)
(* math.radians and math.copysign are operators that compute their value   *)
(* in that arithmetic (Taylor series, integer square root, bisection).     *)
(* The additions and subtractions of clip_angle, whose loops depend on     *)
(* the float's finite significand, round their result to MantBits          *)
(* significant bits, as an IEEE float operation rounds to 53.              *)
(* A Python exception ends a call with status "raise".                     *)
(***************************************************************************)
EXTENDS Integers, Sequences, FiniteSets, TLC

\* One unit of the fixed-point arithmetic is 1/Scale.
Scale == 10 ^ 3

\* math.pi, in units of 1/Scale.
Pi == 3142

\* Significant bits kept by a rounded float operation (53 in IEEE double,
\* scaled down with the rest of the arithmetic).
MantBits == 15

\* Passes of clip_angle's loops that the model follows before it stops
\* following a call (a call whose angle no longer changes runs for ever).
MaxPasses == 12

Abs(a) == IF a < 0 THEN -a ELSE a

Sign(a) == IF a < 0 THEN -1 ELSE 1

\* Float division a/b rounded to the nearest unit (b # 0).
DivR(a, b) ==
    LET q == Abs(a) \div Abs(b)
        r == Abs(a) % Abs(b)
    IN  Sign(a) * Sign(b) * (IF 2 * r >= Abs(b) THEN q + 1 ELSE q)

\* The product of two fixed-point numbers, rounded to the nearest unit.
MulS(a, b) == DivR(a * b, Scale)

RECURSIVE Pow2(_)
Pow2(n) == IF n = 0 THEN 1 ELSE 2 * Pow2(n - 1)

\* Spacing of the floats around a: 1 below 2^MantBits, doubling with each
\* further binade.
RECURSIVE UlpFrom(_, _)
UlpFrom(a, u) ==
    IF (Abs(a) \div u) < Pow2(MantBits) THEN u ELSE UlpFrom(a, 2 * u)

Ulp(a) == UlpFrom(a, 1)

\* Round-to-nearest, ties to the even significand, of an exact result a.
Fl(a) ==
    LET u  == Ulp(a)
        lo == (Abs(a) \div u) * u
        r  == Abs(a) - lo
        up == IF 2 * r > u THEN TRUE
              ELSE IF 2 * r < u THEN FALSE
              ELSE ((lo \div u) % 2) = 1
    IN  Sign(a) * (IF up THEN lo + u ELSE lo)

\* sin on [0, Pi/2] by its Taylor series.
SinQ(y) ==
    LET t2 == (y * y) \div Scale
        t3 == (t2 * y) \div Scale
        t5 == (t3 * t2) \div Scale
        t7 == (t5 * t2) \div Scale
        s  == y - (t3 \div 6) + (t5 \div 120) - (t7 \div 5040)
    IN  IF s > Scale THEN Scale ELSE s

\* sin on [0, Pi] by reflection about Pi/2.
SinH(y) == IF 2 * y > Pi THEN SinQ(Pi - y) ELSE SinQ(y)

\* math.sin
Sin(x) ==
    LET y == x % (2 * Pi)
    IN  IF y > Pi THEN -SinH(y - Pi) ELSE SinH(y)

\* math.cos
Cos(x) == Sin(x + (Pi \div 2))

\* math.tan; like the library it never divides by zero: at the model's
\* Pi/2, where Cos is 0, the tangent of a float next to it is returned.
Tan(x) ==
    IF Cos(x) = 0 THEN Sign(Sin(x)) * Scale * Scale
    ELSE DivR(Sin(x) * Scale, Cos(x))

\* math.sqrt of n/Scale^2, n >= 0 (the argument 1 - s*s is kept exact).
Sqrt2(n) == CHOOSE r \in 0..(2 * Scale) : r * r <= n /\ (r + 1) * (r + 1) > n

\* The least angle of [lo, hi] whose cosine is <= c, by bisection.
RECURSIVE AcosIn(_, _, _)
AcosIn(c, lo, hi) ==
    IF lo >= hi THEN lo
    ELSE LET mid == (lo + hi) \div 2
         IN  IF Cos(mid) <= c THEN AcosIn(c, lo, mid)
             ELSE AcosIn(c, mid + 1, hi)

\* math.acos on [-1, 1]; acos(-c) = pi - acos(c).
Acos(c) ==
    IF c < 0 THEN Pi - AcosIn(-c, 0, Pi \div 2) ELSE AcosIn(c, 0, Pi \div 2)

\* math.radians of d hundredths of a degree.
Radians(d) == DivR(d * Pi, 180 * 100)

\* math.copysign(x, s): the sign of a float zero s = sin(0) is positive.
CopySign(x, s) == IF s < 0 THEN -Abs(x) ELSE Abs(x)

Max(a, b) == IF b > a THEN b ELSE a

(***************************************************************************)
(* kepler.py                                                               *)
(***************************************************************************)

\* Default argument N of newton_raphson.
DefaultN == 50

\* Default argument tolerance of get_eccentric_anomaly (1.0e-9 in the
\* source; here the smallest positive number of the arithmetic).
DefaultTolerance == 1

\* Default argument k of get_eccentric_anomaly: 0.85.
DefaultK == 850

\* Default argument PERH of true_longitude_from_true_anomaly: 102.04 degrees.
DefaultPERH == 10204

\* lambda x: x - eccentricity*math.sin(x) - M
KeplerF(x, ecc, M) == x - MulS(ecc, Sin(x)) - M

\* lambda x: 1 - eccentricity*math.cos(x)
KeplerDF(x, ecc) == Scale - MulS(ecc, Cos(x))

\* x0 - f(x0)/df(x0); the division raises ZeroDivisionError when df(x0) = 0.
Update(x, ecc, M) ==
    IF KeplerDF(x, ecc) = 0 THEN [ok |-> FALSE, val |-> 0]
    ELSE [ok |-> TRUE,
          val |-> x - DivR(KeplerF(x, ecc, M) * Scale, KeplerDF(x, ecc))]

\* The test with <= in place of <.
ConvergedOrEqual(x1, x, epsilon) == Abs(x1 - x) * Scale <= epsilon

\* abs(x1 - x0) < epsilon; epsilon is carried in units of 1/Scale^2, so that
\* the product 2*tolerance*E is exact.
Converged(x1, x, epsilon) == Abs(x1 - x) * Scale < epsilon

\* The seed with a signum that is 0 at sin(M) = 0 in place of copysign.
SeedSignum(M, ecc, k) ==
    M + (IF Sin(M) = 0 THEN 0 ELSE CopySign(MulS(k, ecc), Sin(M)))

\* E = M + math.copysign(k*eccentricity, math.sin(M))
Seed(M, ecc, k) == M + CopySign(MulS(k, ecc), Sin(M))

\* The criterion scaled with the magnitude of the seed.
CriterionAbs(tolerance, E) == 2 * tolerance * Abs(E)

\* 2*tolerance*E, in units of 1/Scale^2.
Criterion(tolerance, E) == 2 * tolerance * E

\* length = max - min
Length(lo, hi) == hi - lo

\* while angle > max
Above(a, hi) == a > hi

\* while angle < min
Below(a, lo) == a < lo

\* math.radians(180+PERH) + true_anomaly
ShiftedAnomaly(true_anomaly, PERH) ==
    Fl(Radians(180 * 100 + PERH) + true_anomaly)

(***************************************************************************)
(* solar.py                                                                *)
(***************************************************************************)

\* Default argument S of Solar.__init__.
DefaultS == 1371

\* sin_declination(obliquity, true_longitude)
sin_declination(obliquity, true_longitude) ==
    MulS(Sin(obliquity), Sin(true_longitude))

\* math.sqrt(1 - sin_decl*sin_decl)
cos_declination(sin_decl) == Sqrt2(Scale * Scale - sin_decl * sin_decl)

\* hour_angle(T), T in hours.
hour_angle(T) == Radians((15 * T - 180) * 100)

\* cos_zenith_angle(obliquity, true_longitude, latitude, T)
cos_zenith_angle(obliquity, true_longitude, latitude, T) ==
    LET sin_decl == sin_declination(obliquity, true_longitude)
        cos_decl == cos_declination(sin_decl)
    IN  MulS(Sin(latitude), sin_decl)
          + MulS(MulS(Cos(latitude), cos_decl), Cos(hour_angle(T)))

\* Solar.beam_irradience(r): S/(r*r), in whole W/m2; r in units of 1/Scale.
beam_irradience(S, r) ==
    IF r * r = 0 THEN [ok |-> FALSE, val |-> 0]
    ELSE [ok |-> TRUE, val |-> DivR(S * Scale * Scale, r * r)]

\* surface_irradience without the clamp.
surface_irradience_unclamped(S, obliquity, r, true_longitude, latitude, T) ==
    LET beam == beam_irradience(S, r)
    IN  IF ~beam.ok THEN beam
        ELSE [ok |-> TRUE,
              val |-> cos_zenith_angle(obliquity, true_longitude,
                                       latitude, T) * beam.val]

\* Solar.surface_irradience: max(0, cos_zenith_angle(...) * beam_irradience(r)),
\* in units of 1/Scale W/m2.
surface_irradience(S, obliquity, r, true_longitude, latitude, T) ==
    LET beam == beam_irradience(S, r)
    IN  IF ~beam.ok THEN beam
        ELSE [ok |-> TRUE,
              val |-> Max(0, cos_zenith_angle(obliquity, true_longitude,
                                              latitude, T) * beam.val)]

\* prod = tan_declination * m.tan(latitude); the division
\* sin_decl/m.sqrt(1-sin_decl*sin_decl) raises ZeroDivisionError at a
\* declination of +-pi/2.
Prod(obliquity, true_longitude, latitude) ==
    LET sin_decl == sin_declination(obliquity, true_longitude)
        cos_decl == cos_declination(sin_decl)
    IN  IF cos_decl = 0 THEN [ok |-> FALSE, val |-> 0]
        ELSE [ok |-> TRUE,
              val |-> MulS(DivR(sin_decl * Scale, cos_decl), Tan(latitude))]

\* The else branch without the tests of the season.
PolarHourAngleAnySeason(prod, true_longitude, latitude) ==
    IF (latitude > 0 \/ latitude < 0) /\ prod > Scale THEN Pi ELSE 0

\* The else branch of hour_angle_sunrise_sunset (abs(prod) >= 1).
PolarHourAngle(prod, true_longitude, latitude) ==
    IF latitude > 0 /\ prod > Scale
          /\ 0 < true_longitude /\ true_longitude < Pi
    THEN Pi
    ELSE IF latitude < 0 /\ prod > Scale
               /\ Pi < true_longitude /\ true_longitude < 2 * Pi
         THEN Pi
         ELSE 0

\* Solar.hour_angle_sunrise_sunset(true_longitude, latitude, sunset)
hour_angle_sunrise_sunset(obliquity, true_longitude, latitude, sunset) ==
    LET p == Prod(obliquity, true_longitude, latitude)
    IN  IF ~p.ok THEN p
        ELSE IF Abs(p.val) < Scale
             THEN [ok |-> TRUE,
                   val |-> Acos(-p.val) * (IF sunset THEN 1 ELSE -1)]
             ELSE [ok |-> TRUE,
                   val |-> PolarHourAngle(p.val, true_longitude, latitude)]

\* (24/m.pi) * ha, in units of 1/Scale hours.  In IEEE double 24/pi*pi is
\* exactly 24.0; the quotient is carried exactly here so that the model has
\* the same value.
HoursOf(ha) == DivR(24 * Scale * ha, Pi)

\* The hour angle of sunrise asked for in place of that of sunset.
DaySunrise == FALSE

\* The argument sunset that length_of_day passes (the default).
DaySunset == TRUE

\* Solar.length_of_day(true_longitude, latitude)
length_of_day(obliquity, true_longitude, latitude) ==
    LET ha == hour_angle_sunrise_sunset(obliquity, true_longitude, latitude,
                                        DaySunset)
    IN  IF ~ha.ok THEN ha
        ELSE [ok |-> TRUE, val |-> Max(0, HoursOf(ha.val))]

(***************************************************************************)
(* The calls.  One call is followed at a time: a Call action draws the     *)
(* arguments, the loops of clip_angle and newton_raphson take one step per *)
(* pass, and the call ends in pc = "done" with status "ok" (result holds   *)
(* the returned value) or "raise".                                         *)
(***************************************************************************)
VARIABLES
    pc,       \* "idle", "loop1", "loop2" (clip_angle), "nr", "done"
    fn,       \* the function called
    args,     \* its arguments
    angle,    \* clip_angle: the local angle
    passes,   \* clip_angle: passes of the two loops made so far
    x0,       \* newton_raphson: the local x0
    i,        \* newton_raphson: updates x1 = x0-f(x0)/df(x0) evaluated
    early,    \* newton_raphson: the return inside the loop was taken
    xs,       \* newton_raphson: history variable, x followed by every x1 computed
    result,   \* the value returned
    status    \* "run", "ok", "raise"

vars == <<pc, fn, args, angle, passes, x0, i, early, xs, result, status>>

\* An angle large enough for the range width to be lost in rounding.
BigAngle == Pow2(MantBits + 13) + Pow2(14)

ClipRanges == {<<0, 2 * Pi>>, <<-Pi, Pi>>, <<0, Pi>>}

ClipAngles ==
    {-BigAngle, -7000, -Pi, -1, 0, 1000, Pi, Pi + 1, 2 * Pi, 2 * Pi + 1,
     4 * Pi, 20000, BigAngle}

TrueAnomalies == {-3000, 0, 1000, Pi, 5000, 7000}

PERHs == {-180 * 100, 0, DefaultPERH, 180 * 100}

MeanAnomalies == {-3000, -500, 0, 393, 785, Pi \div 2, 2356, 4000, 6000}

Eccentricities == {0, 200, 900}

\* Direct calls of newton_raphson: <<x, M, eccentricity>>.  With
\* eccentricity 1 the derivative is 0 at x = 0.
NewtonCases ==
    {<<0, 0, Scale>>, <<0, 0, 0>>, <<500, 0, 200>>, <<-1000, 785, 200>>,
     <<3000, 785, 200>>, <<3000, 2356, 900>>}

Epsilons == {-2000, 0, 2000, 600000}

IterationCaps == {0, 1, 3, DefaultN}

\* 23.4 degrees; 0.771, for which the latitude 0.8 is the polar circle
\* (prod = 1 at the solstice); pi/2.
Obliquities == {Radians(2340), 771, Pi \div 2}

TrueLongitudes ==
    {-(Pi \div 2), 0, 800, Pi \div 2, Pi, 4000, 3 * (Pi \div 2), 2 * Pi,
     2 * Pi + (Pi \div 2)}

Latitudes == {-1500, -1200, -800, -400, 0, 400, 800, 1200, 1500}

Hours == {0, 6, 12, 18}

Distances == {0, 500, 1000, 1500}

NoArgs == [none |-> 0]

Init ==
    /\ pc = "idle"
    /\ fn = "none"
    /\ args = NoArgs
    /\ angle = 0
    /\ passes = 0
    /\ x0 = 0
    /\ i = 0
    /\ early = FALSE
    /\ xs = <<>>
    /\ result = 0
    /\ status = "run"

\* clip_angle(angle, min, max): entry.
CallClipAngle ==
    /\ pc = "idle"
    /\ \E a \in ClipAngles, rg \in ClipRanges :
          /\ args' = [angle |-> a, min |-> rg[1], max |-> rg[2]]
          /\ angle' = a
    /\ fn' = "clip_angle"
    /\ pc' = "loop1"
    /\ UNCHANGED <<passes, x0, i, early, xs, result, status>>

\* true_longitude_from_true_anomaly(true_anomaly, PERH): the call of
\* clip_angle with the default range.
CallTrueLongitude ==
    /\ pc = "idle"
    /\ \E ta \in TrueAnomalies, perh \in PERHs :
          /\ args' = [true_anomaly |-> ta, PERH |-> perh,
                      angle |-> ShiftedAnomaly(ta, perh),
                      min |-> 0, max |-> 2 * Pi]
          /\ angle' = ShiftedAnomaly(ta, perh)
    /\ fn' = "true_longitude_from_true_anomaly"
    /\ pc' = "loop1"
    /\ UNCHANGED <<passes, x0, i, early, xs, result, status>>

\* One pass of "while angle>max: angle-=length".
ClipLoop1Pass ==
    /\ pc = "loop1"
    /\ Above(angle, args.max)
    /\ passes < MaxPasses
    /\ angle' = Fl(angle - Length(args.min, args.max))
    /\ passes' = passes + 1
    /\ UNCHANGED <<pc, fn, args, x0, i, early, xs, result, status>>

\* The first loop's test fails.
ClipLoop1Exit ==
    /\ pc = "loop1"
    /\ ~Above(angle, args.max)
    /\ pc' = "loop2"
    /\ UNCHANGED <<fn, args, angle, passes, x0, i, early, xs, result, status>>

\* One pass of "while angle<min: angle+=length".
ClipLoop2Pass ==
    /\ pc = "loop2"
    /\ Below(angle, args.min)
    /\ passes < MaxPasses
    /\ angle' = Fl(angle + Length(args.min, args.max))
    /\ passes' = passes + 1
    /\ UNCHANGED <<pc, fn, args, x0, i, early, xs, result, status>>

\* The second loop's test fails: return angle.
ClipReturn ==
    /\ pc = "loop2"
    /\ ~Below(angle, args.min)
    /\ result' = angle
    /\ status' = "ok"
    /\ pc' = "done"
    /\ UNCHANGED <<fn, args, angle, passes, x0, i, early, xs>>

\* newton_raphson(x, f, df, epsilon, N) with Kepler's f and df: entry.
CallNewtonRaphson ==
    /\ pc = "idle"
    /\ \E c \in NewtonCases, eps \in Epsilons, N \in IterationCaps :
          /\ args' = [M |-> c[2], eccentricity |-> c[3], tolerance |-> 0,
                      k |-> 0, x |-> c[1], epsilon |-> eps, N |-> N]
          /\ x0' = c[1]
          /\ xs' = <<c[1]>>
    /\ fn' = "newton_raphson"
    /\ pc' = "nr"
    /\ UNCHANGED <<angle, passes, i, early, result, status>>

\* get_eccentric_anomaly(M, eccentricity): the seed and the call of
\* newton_raphson with the default N.
CallGetEccentricAnomaly ==
    /\ pc = "idle"
    /\ \E M \in MeanAnomalies, ecc \in Eccentricities :
          LET E == Seed(M, ecc, DefaultK)
          IN  /\ args' = [M |-> M, eccentricity |-> ecc,
                          tolerance |-> DefaultTolerance, k |-> DefaultK,
                          x |-> E,
                          epsilon |-> Criterion(DefaultTolerance, E),
                          N |-> DefaultN]
              /\ x0' = E
              /\ xs' = <<E>>
    /\ fn' = "get_eccentric_anomaly"
    /\ pc' = "nr"
    /\ UNCHANGED <<angle, passes, i, early, result, status>>

\* One pass of "for i in range(N)".
NewtonPass ==
    /\ pc = "nr"
    /\ i < args.N
    /\ LET x1 == Update(x0, args.eccentricity, args.M)
       IN  IF ~x1.ok
           THEN /\ status' = "raise"
                /\ pc' = "done"
                /\ UNCHANGED <<x0, i, early, xs, result>>
           ELSE /\ i' = i + 1
                /\ xs' = Append(xs, x1.val)
                /\ IF Converged(x1.val, x0, args.epsilon)
                   THEN /\ result' = x1.val
                        /\ early' = TRUE
                        /\ status' = "ok"
                        /\ pc' = "done"
                        /\ UNCHANGED x0
                   ELSE /\ x0' = x1.val
                        /\ UNCHANGED <<pc, early, result, status>>
    /\ UNCHANGED <<fn, args, angle, passes>>

\* The loop is exhausted: return x0.
NewtonReturn ==
    /\ pc = "nr"
    /\ i >= args.N
    /\ result' = x0
    /\ status' = "ok"
    /\ pc' = "done"
    /\ UNCHANGED <<fn, args, angle, passes, x0, i, early, xs>>

\* The end of a call that computes its value in one expression.
Finish(f, a, r) ==
    /\ fn' = f
    /\ args' = a
    /\ result' = r.val
    /\ status' = IF r.ok THEN "ok" ELSE "raise"
    /\ pc' = "done"
    /\ UNCHANGED <<angle, passes, x0, i, early, xs>>

\* Solar(planet, S).surface_irradience(true_longitude, latitude, T)
CallSurfaceIrradience ==
    /\ pc = "idle"
    /\ \E obl \in Obliquities, r \in Distances, tl \in TrueLongitudes,
          lat \in Latitudes, T \in Hours :
          Finish("surface_irradience",
                 [S |-> DefaultS, obliquity |-> obl, r |-> r,
                  true_longitude |-> tl, latitude |-> lat, T |-> T],
                 surface_irradience(DefaultS, obl, r, tl, lat, T))

\* Solar(planet).hour_angle_sunrise_sunset(true_longitude, latitude, sunset)
CallHourAngleSunriseSunset ==
    /\ pc = "idle"
    /\ \E obl \in Obliquities, tl \in TrueLongitudes, lat \in Latitudes,
          sunset \in BOOLEAN :
          Finish("hour_angle_sunrise_sunset",
                 [obliquity |-> obl, true_longitude |-> tl, latitude |-> lat,
                  sunset |-> sunset],
                 hour_angle_sunrise_sunset(obl, tl, lat, sunset))

\* Solar(planet).length_of_day(true_longitude, latitude)
CallLengthOfDay ==
    /\ pc = "idle"
    /\ \E obl \in Obliquities, tl \in TrueLongitudes, lat \in Latitudes :
          Finish("length_of_day",
                 [obliquity |-> obl, true_longitude |-> tl, latitude |-> lat],
                 length_of_day(obl, tl, lat))

Next ==
    \/ CallClipAngle
    \/ CallTrueLongitude
    \/ ClipLoop1Pass
    \/ ClipLoop1Exit
    \/ ClipLoop2Pass
    \/ ClipReturn
    \/ CallNewtonRaphson
    \/ CallGetEccentricAnomaly
    \/ NewtonPass
    \/ NewtonReturn
    \/ CallSurfaceIrradience
    \/ CallHourAngleSunriseSunset
    \/ CallLengthOfDay

Spec == Init /\ [][Next]_vars

(***************************************************************************)
(* Properties                                                              *)
(***************************************************************************)

Returned(f) == fn = f /\ pc = "done" /\ status = "ok"

ClipCall == fn \in {"clip_angle", "true_longitude_from_true_anomaly"}

NewtonCall == fn \in {"newton_raphson", "get_eccentric_anomaly"}

\* The number of range widths that a lies away from [lo, hi].
WidthsAway(a, lo, hi) ==
    IF a > hi THEN (a - hi + (hi - lo) - 1) \div (hi - lo)
    ELSE IF a < lo THEN (lo - a + (hi - lo) - 1) \div (hi - lo)
    ELSE 0

\* C1: clip_angle(angle, min, max) with min < max returns r with
\* min <= r < max, and r differs from angle by a multiple of max - min.
ClipAngleHalfOpen ==
    (Returned("clip_angle") /\ args.min < args.max)
        => /\ args.min <= result
           /\ result < args.max
           /\ (result - args.angle) % (args.max - args.min) = 0

\* C5: true_longitude_from_true_anomaly returns a value of [0, 2 pi) that is
\* congruent to radians(180 + PERH) + true_anomaly modulo 2 pi.
TrueLongitudeHalfOpen ==
    Returned("true_longitude_from_true_anomaly")
        => /\ 0 <= result
           /\ result < 2 * Pi
           /\ (result - (Radians(180 * 100 + args.PERH) + args.true_anomaly))
                 % (2 * Pi) = 0

\* C6: the passes of clip_angle's two loops are bounded by the number of
\* range widths the input lies away from [min, max] (the passes made plus
\* the widths the angle still lies away never exceed the widths the input
\* lay away), and the second loop never lifts the angle above max.
ClipAnglePassesBounded ==
    (ClipCall /\ args.min < args.max)
        => /\ passes + WidthsAway(angle, args.min, args.max)
                 <= WidthsAway(args.angle, args.min, args.max)
           /\ (pc \in {"loop2", "done"} => angle <= args.max)

\* The steps k >= 1 made so far with |x_k - x_{k-1}| < epsilon (xs[k + 1] is
\* the iterate x_k).
ConvergingSteps ==
    {k \in 1..(Len(xs) - 1) : Abs(xs[k + 1] - xs[k]) * Scale < args.epsilon}

\* C2: newton_raphson evaluates the update x_{k+1} = x_k - f(x_k)/df(x_k) at
\* most N times; it returns x_{k+1} at the first step whose
\* |x_{k+1} - x_k| < epsilon, and x_N (x itself when N = 0) when no step
\* among the N passes that test.
NewtonRaphsonContract ==
    NewtonCall
        => /\ i <= args.N
           /\ Len(xs) = i + 1
           /\ xs[1] = args.x
           /\ \A k \in 1..i :
                 /\ KeplerDF(xs[k], args.eccentricity) # 0
                 /\ xs[k + 1]
                       = xs[k] - DivR(KeplerF(xs[k], args.eccentricity,
                                              args.M) * Scale,
                                      KeplerDF(xs[k], args.eccentricity))
           /\ (pc = "done" /\ status = "ok")
                 => IF ConvergingSteps # {}
                    THEN /\ ConvergingSteps = {i}
                         /\ result = xs[i + 1]
                    ELSE /\ i = args.N
                         /\ result = xs[args.N + 1]

\* A call of newton_raphson returned the last iterate after N > 0 updates
\* none of which passed the test, and another returned inside the loop.
NewtonRaphsonExhausted ==
    /\ Returned("newton_raphson")
    /\ args.N = 3
    /\ args.epsilon > 0
    /\ i = 3
    /\ ~early
    /\ result # args.x

\* The product that surface_irradience clamps.
Product ==
    cos_zenith_angle(args.obliquity, args.true_longitude, args.latitude,
                     args.T) * beam_irradience(args.S, args.r).val

\* C3: the value surface_irradience returns is >= 0: it is 0 when
\* cos_zenith_angle * beam_irradience is negative, and that product
\* otherwise.
SurfaceIrradienceNonNegative ==
    Returned("surface_irradience")
        => /\ result >= 0
           /\ Product < 0 => result = 0
           /\ Product >= 0 => result = Product

\* A call with the sun below the horizon returned 0.
SunBelowHorizon ==
    /\ Returned("surface_irradience")
    /\ cos_zenith_angle(args.obliquity, args.true_longitude, args.latitude,
                        args.T) < 0
    /\ Product < 0
    /\ result = 0

\* prod of the call in args.
ProdOfCall == Prod(args.obliquity, args.true_longitude, args.latitude).val

\* The two polar-day cases of the claims.
PolarDay ==
    \/ /\ args.latitude > 0
       /\ ProdOfCall > Scale
       /\ 0 < args.true_longitude
       /\ args.true_longitude < Pi
    \/ /\ args.latitude < 0
       /\ ProdOfCall > Scale
       /\ Pi < args.true_longitude
       /\ args.true_longitude < 2 * Pi

\* C4: with |prod| >= 1, hour_angle_sunrise_sunset returns pi in the two
\* polar-day cases and 0 in every other case; with |prod| < 1 it returns
\* acos(-prod) for sunset and -acos(-prod) for sunrise.
HourAngleBranches ==
    Returned("hour_angle_sunrise_sunset")
        => /\ (Abs(ProdOfCall) >= Scale /\ PolarDay) => result = Pi
           /\ (Abs(ProdOfCall) >= Scale /\ ~PolarDay) => result = 0
           /\ (Abs(ProdOfCall) < Scale /\ args.sunset)
                 => result = Acos(-ProdOfCall)
           /\ (Abs(ProdOfCall) < Scale /\ ~args.sunset)
                 => result = -Acos(-ProdOfCall)

\* A call with prod > 1 in the northern hemisphere and a true longitude
\* outside (0, pi) returned 0.
PolarNightOutsideSeason ==
    /\ Returned("hour_angle_sunrise_sunset")
    /\ args.latitude > 0
    /\ ProdOfCall > Scale
    /\ args.true_longitude > 2 * Pi
    /\ result = 0

\* The hour angle of sunset of the call in args.
SunsetOfCall ==
    hour_angle_sunrise_sunset(args.obliquity, args.true_longitude,
                              args.latitude, TRUE).val

\* C10: the value length_of_day returns lies in [0, 24]: the hour angle of
\* sunset lies in [0, pi], so the result is 24 in the polar-day cases, 0 in
\* the other cases with |prod| >= 1, strictly between 0 and 24 with
\* |prod| < 1; and it is the unclamped (24/pi) * hour angle of sunset.
LengthOfDayRange ==
    Returned("length_of_day")
        => /\ 0 <= SunsetOfCall
           /\ SunsetOfCall <= Pi
           /\ 0 <= result
           /\ result <= 24 * Scale
           /\ (Abs(ProdOfCall) >= Scale /\ PolarDay) => result = 24 * Scale
           /\ (Abs(ProdOfCall) >= Scale /\ ~PolarDay) => result = 0
           /\ Abs(ProdOfCall) < Scale
                 => (0 < result /\ result < 24 * Scale)
           /\ result = HoursOf(SunsetOfCall)

\* Calls of length_of_day returned 24 hours in the southern polar day.
SouthernPolarDay ==
    /\ Returned("length_of_day")
    /\ args.latitude < 0
    /\ PolarDay
    /\ result = 24 * Scale

\* C8, as stated: with M = 0 the seed and the criterion are 0 and
\* newton_raphson returns on its first iteration.
ZeroMeanAnomalyConvergesAtOnce ==
    (fn = "get_eccentric_anomaly" /\ args.M = 0)
        => /\ args.x = 0
           /\ args.epsilon = 0
           /\ pc = "done" => (early /\ i = 1)

\* C8, amended: with M = 0 the seed is k*eccentricity and the criterion
\* 2*tolerance*k*eccentricity; where these are 0 (eccentricity 0) the test
\* never succeeds: newton_raphson makes all N updates and returns 0.
ZeroMeanAnomalySeed ==
    (fn = "get_eccentric_anomaly" /\ args.M = 0)
        => /\ args.x = MulS(args.k, args.eccentricity)
           /\ args.epsilon
                 = 2 * args.tolerance * MulS(args.k, args.eccentricity)
           /\ (args.eccentricity = 0 /\ pc = "done")
                 => (~early /\ i = args.N /\ result = 0)

\* get_eccentric_anomaly(0, 0) returned after all N updates.
ZeroSeedRunsToCap ==
    /\ Returned("get_eccentric_anomaly")
    /\ args.M = 0
    /\ args.eccentricity = 0
    /\ args.epsilon = 0
    /\ i = DefaultN

\* C9: with epsilon <= 0 the return inside the loop is never taken and a
\* call returns after exactly N updates; get_eccentric_anomaly passes such
\* an epsilon whenever its seed M + copysign(k*e, sin(M)) is <= 0.
NonPositiveEpsilonRunsToCap ==
    /\ (NewtonCall /\ args.epsilon <= 0)
          => /\ ~early
             /\ (pc = "done" /\ status = "ok") => i = args.N
    /\ (fn = "get_eccentric_anomaly"
          /\ args.M + CopySign(MulS(args.k, args.eccentricity), Sin(args.M))
                <= 0)
          => args.epsilon <= 0

\* get_eccentric_anomaly with a negative mean anomaly made all 50 updates.
NegativeMeanAnomalyRunsToCap ==
    /\ Returned("get_eccentric_anomaly")
    /\ args.M < 0
    /\ args.epsilon < 0
    /\ i = DefaultN
    /\ ~early

====
